---- MODULE Spec2Model ----
(***************************************************************************)
(* hostm: a command-line editor of a hosts file (src/main.rs).             *)
(*                                                                         *)
(* Text is modelled as a sequence of one-character strings, so that the    *)
(* two regular expressions, str::lines, join and ends_with are computed    *)
(* character by character as the program computes them.  One invocation    *)
(* of the tool is one process: it checks the path, reads the whole file,   *)
(* runs one of the four mutators on the text and overwrites the file.      *)
(* The file on disk is the only state that outlives an invocation.         *)
(***************************************************************************)
EXTENDS Naturals, Sequences, FiniteSets

(***************************************************************************)
(* Bounds of the model.                                                    *)
(***************************************************************************)
\* Largest number of lines of an initial hosts file over LinePool.
MaxLines == 2
\* Largest number of lines of an initial hosts file over ShortPool.
MaxDeepLines == 3
\* Largest number of bytes a failing write_all leaves behind.
MaxPartial == 1

(***************************************************************************)
(* Characters and character classes of the regex engine.                   *)
(***************************************************************************)
Digits == {"0", "1", "2", "3", "4", "5", "6", "7", "8", "9"}

Letters == {"a", "b", "c", "d", "e", "f", "g", "h", "i", "j", "k", "l", "m",
            "n", "o", "p", "q", "r", "s", "t", "u", "v", "w", "x", "y", "z"}

\* \w of the regex crate, restricted to the characters that occur here.
WordChars == Digits \cup Letters \cup {"_"}

\* [[:space:]]
SpaceChars == {" ", "\t", "\n", "\r", "\f"}

NL == <<"\n">>

CRLF == <<"\r", "\n">>

(***************************************************************************)
(* Library string functions used by the program.                           *)
(***************************************************************************)
\* str::ends_with('\n')
ends_with_newline(s) == Len(s) > 0 /\ s[Len(s)] = "\n"

\* One piece that str::lines cut at a "\n": a "\r" right before the "\n" is
\* part of the line ending and is dropped (one, not several).
strip_cr(piece) ==
    IF Len(piece) > 0 /\ piece[Len(piece)] = "\r"
    THEN SubSeq(piece, 1, Len(piece) - 1)
    ELSE piece

\* The index of the k-th "\n" of s; 0 for k = 0.
nth_newline(s, k) ==
    LET nls == {i \in 1..Len(s) : s[i] = "\n"}
    IN  IF k = 0 THEN 0
        ELSE CHOOSE i \in nls : Cardinality({j \in nls : j <= i}) = k

\* str::lines: split at "\n" or "\r\n"; the final line ending is optional;
\* a carriage return that ends the last, unterminated line is kept.
lines(s) ==
    LET terminated == Cardinality({i \in 1..Len(s) : s[i] = "\n"})
        n == terminated + (IF Len(s) > 0 /\ s[Len(s)] # "\n" THEN 1 ELSE 0)
    IN  [k \in 1..n |->
            IF k <= terminated
            THEN strip_cr(SubSeq(s, nth_newline(s, k - 1) + 1, nth_newline(s, k) - 1))
            ELSE SubSeq(s, nth_newline(s, k - 1) + 1, Len(s))]

\* [String]::join(sep)
RECURSIVE join(_, _)
join(ls, sep) ==
    IF Len(ls) = 0 THEN <<>>
    ELSE IF Len(ls) = 1 THEN ls[1]
    ELSE ls[1] \o sep \o join(Tail(ls), sep)

\* str::contains(needle)
contains(line, needle) ==
    \E i \in 1..(Len(line) + 1) :
        /\ i + Len(needle) - 1 <= Len(line)
        /\ SubSeq(line, i, i + Len(needle) - 1) = needle

(***************************************************************************)
(* The two regular expressions of the Line Matcher.                        *)
(***************************************************************************)
\* The index after the longest run of digits that starts at i ([0-9]+ is
\* greedy and no digit can be given back: "." and whitespace are no digits).
RECURSIVE digits_end(_, _)
digits_end(line, i) ==
    IF i <= Len(line) /\ line[i] \in Digits THEN digits_end(line, i + 1) ELSE i

\* [0-9]+\. from index i: the index after the ".", or 0 when it does not match.
group_end(line, i) ==
    LET e == digits_end(line, i)
    IN  IF i > 0 /\ e > i /\ e <= Len(line) /\ line[e] = "." THEN e + 1 ELSE 0

\* ^([0-9]+\.){3}[0-9]+ : the index after the address, or 0.
address_end(line) ==
    LET g1 == group_end(line, 1)
        g2 == IF g1 = 0 THEN 0 ELSE group_end(line, g1)
        g3 == IF g2 = 0 THEN 0 ELSE group_end(line, g2)
        e  == IF g3 = 0 THEN 0 ELSE digits_end(line, g3)
    IN  IF g3 > 0 /\ e > g3 THEN e ELSE 0

\* ^([0-9]+\.){3}[0-9]+[[:space:]]+ .is_match(line)
ip_regex_is_match(line) ==
    LET e == address_end(line)
    IN  e > 0 /\ e <= Len(line) /\ line[e] \in SpaceChars

\* Whether the character at index k exists and is a word character.
is_word_at(line, k) == k >= 1 /\ k <= Len(line) /\ line[k] \in WordChars

\* \b between index k-1 and index k.
word_boundary(line, k) == is_word_at(line, k - 1) # is_word_at(line, k)

\* \b<escaped domain>\b .is_match(line): regex::escape makes the domain a
\* literal, so the pattern is the domain's characters between two boundaries.
domain_regex_is_match(line, domain) ==
    \E i \in 1..(Len(line) + 1) :
        /\ i + Len(domain) - 1 <= Len(line)
        /\ SubSeq(line, i, i + Len(domain) - 1) = domain
        /\ word_boundary(line, i)
        /\ word_boundary(line, i + Len(domain))

\* The test the three mutators apply to a line.
is_mapping_for(line, domain) ==
    ip_regex_is_match(line) /\ domain_regex_is_match(line, domain)

(***************************************************************************)
(* The inputs the model draws from.                                        *)
(***************************************************************************)
\* Lines an initial hosts file is made of: a blank line, a record, a record
\* of another name that contains "a.com" without being the token, a record
\* with a tab and trailing text, and a line that ends in a carriage return
\* of its own.
LinePool ==
    { <<>>,
      <<"1", ".", "2", ".", "3", ".", "4", " ", "a", ".", "c", "o", "m">>,
      <<"5", ".", "6", ".", "7", ".", "8", " ", "x", "a", ".", "c", "o", "m">>,
      <<"7", ".", "7", ".", "7", ".", "7", "\t", "a", ".", "c", "o", "m", " ", "#", "c">>,
      <<"#", "\r">> }

\* Lines of the longer initial files: a blank line, a record, and a comment
\* that names a.com without being a record.
ShortPool ==
    { <<>>,
      <<"1", ".", "2", ".", "3", ".", "4", " ", "a", ".", "c", "o", "m">>,
      <<"#", " ", "a", ".", "c", "o", "m">> }

\* Sequences over S of length at most n.
RECURSIVE SeqsUpTo(_, _)
SeqsUpTo(S, n) ==
    IF n = 0 THEN {<<>>}
    ELSE LET shorter == SeqsUpTo(S, n - 1)
         IN  shorter \cup {Append(q, x) : q \in shorter, x \in S}

\* The text of a file with the given lines, line ending and final line ending.
MkDoc(ls, eol, final) == join(ls, eol) \o (IF final THEN eol ELSE <<>>)

\* Initial hosts files: LF or CRLF line endings, with or without a final one.
Docs ==
    {MkDoc(ls, eol, final) :
        ls \in SeqsUpTo(LinePool, MaxLines) \cup SeqsUpTo(ShortPool, MaxDeepLines),
        eol \in {NL, CRLF}, final \in BOOLEAN}

Domains == { <<"a", ".", "c", "o", "m">>, <<"4">> }

\* A dotted-quad address, an address the pattern does not accept, and an
\* argument that holds a line feed.
IPs ==
    { <<"9", ".", "9", ".", "9", ".", "9">>,
      <<":", ":", "1">>,
      <<"9", ".", "9", ".", "9", ".", "9", "\n", "#">> }

\* Local::now().format("%Y-%m-%d %H:%M:%S"): the current time string.
timestamp ==
    <<"2", "0", "2", "6", "-", "1", "1", "-", "0", "2", " ",
      "0", "9", ":", "3", "3", ":", "0", "0">>

(***************************************************************************)
(* The three mutators, as functions of the text.                           *)
(***************************************************************************)
created_comment ==
    <<"#", " ", "c", "r", "e", "a", "t", "e", "d", " ", "b", "y", " ",
      "h", "o", "s", "t", "m", " ">> \o timestamp

updated_comment ==
    <<"#", " ", "u", "p", "d", "a", "t", "e", "d", " ", "b", "y", " ",
      "h", "o", "s", "t", "m", " ">> \o timestamp

\* format!("{} {} {}", ip, domain, comment)
format_line(ip, domain, comment) == ip \o <<" ">> \o domain \o <<" ">> \o comment

\* lines.join("\n") + if content.ends_with('\n') { "\n" } else { "" }
rejoin(ls, content) ==
    join(ls, NL) \o (IF ends_with_newline(content) THEN NL ELSE <<>>)

\* The indexes of the lines the Line Matcher accepts.
matching(ls, domain) == {i \in 1..Len(ls) : is_mapping_for(ls[i], domain)}

\* A variant of the update loop without its break.
replace_every(ls, domain, new_line) ==
    [i \in 1..Len(ls) |-> IF i \in matching(ls, domain) THEN new_line ELSE ls[i]]

\* The update loop: the first matching line is replaced, then the loop breaks.
replace_first(ls, domain, new_line) ==
    LET m == matching(ls, domain)
        first == CHOOSE i \in m : \A j \in m : i <= j
    IN  IF m = {} THEN ls ELSE [ls EXCEPT ![first] = new_line]

update_existing_domain(content, domain, ip, verbose) ==
    LET ls == lines(content)
        domain_found == matching(ls, domain) # {}
        new_line == format_line(ip, domain, updated_comment)
    IN  IF ~domain_found
        THEN [ok |-> FALSE, out |-> <<>>]
        ELSE [ok |-> TRUE, out |-> rejoin(replace_first(ls, domain, new_line), content)]

\* found is set only inside `if verbose && matched`.
remove_domain(content, domain, verbose) ==
    LET ls == lines(content)
        keep(line) == ~is_mapping_for(line, domain)
        found == verbose /\ matching(ls, domain) # {}
    IN  IF ~found
        THEN [ok |-> FALSE, out |-> <<>>]
        ELSE [ok |-> TRUE, out |-> rejoin(SelectSeq(ls, keep), content)]

\* A variant that puts the new line first.
push_front(ls, new_line) == <<new_line>> \o ls

\* lines.push(new_line)
push(ls, new_line) == Append(ls, new_line)

\* A variant of the existence check that never finds the domain.
never_exists(ls, domain) == FALSE

\* The existence check of add_new_domain.
already_exists(ls, domain) == matching(ls, domain) # {}

add_new_domain(content, domain, ip, verbose) ==
    LET ls == lines(content)
        new_line == format_line(ip, domain, created_comment)
    IN  IF already_exists(ls, domain)
        THEN [ok |-> FALSE, out |-> <<>>]
        ELSE [ok |-> TRUE, out |-> rejoin(push(ls, new_line), content)]

\* The report of search_domain: (1-based line number, line) of every line
\* that contains the domain as a plain substring.
search_report(content, domain) ==
    LET ls == lines(content)
        numbered == [i \in 1..Len(ls) |-> <<i, ls[i]>>]
        hit(e) == contains(e[2], domain)
    IN  SelectSeq(numbered, hit)

(***************************************************************************)
(* The state: the file, and the invocations of the tool.                   *)
(***************************************************************************)
VARIABLES
    fkind,      \* what is at the path: "file", "dir" or "missing"
    disk,       \* the bytes of the file
    pc,         \* where each invocation is
    args,       \* its command line
    content,    \* the text it read
    new_content,\* the text its mutator returned
    err         \* the error it ended with, "none" so far

vars == <<fkind, disk, pc, args, content, new_content, err>>

\* Invocations that may run side by side.
Procs == {1, 2}

\* A single invocation.
Single == {1}

Mutating == {"update", "delete", "create"}

\* Every command line: clap keeps an ip only for update and create.
Commands ==
    [op : {"update", "create"}, domain : Domains, ip : IPs, verbose : BOOLEAN]
    \cup [op : {"delete", "search"}, domain : Domains, ip : {<<>>}, verbose : BOOLEAN]

NoArgs == [op |-> "none", domain |-> <<>>, ip |-> <<>>, verbose |-> FALSE]

Init ==
    /\ fkind \in {"file", "dir", "missing"}
    /\ disk \in (IF fkind = "file" THEN Docs ELSE {<<>>})
    /\ pc = [p \in Procs |-> "idle"]
    /\ args = [p \in Procs |-> NoArgs]
    /\ content = [p \in Procs |-> <<>>]
    /\ new_content = [p \in Procs |-> <<>>]
    /\ err = [p \in Procs |-> "none"]

\* An invocation ends with an error: `?` returns from the handler and main.
Fail(p, e) ==
    /\ pc' = [pc EXCEPT ![p] = "failed"]
    /\ err' = [err EXCEPT ![p] = e]

\* main: parse the command line and dispatch to the handler.
main(p, cmd) ==
    /\ pc[p] = "idle"
    /\ args' = [args EXCEPT ![p] = cmd]
    /\ pc' = [pc EXCEPT ![p] = "check"]
    /\ UNCHANGED <<fkind, disk, content, new_content, err>>

\* check_hosts_file: the path exists and is a regular file.
check_hosts_file(p) ==
    /\ pc[p] = "check"
    /\ IF fkind = "missing" THEN Fail(p, "FileNotFound")
       ELSE IF fkind # "file" THEN Fail(p, "NotAFile")
       ELSE pc' = [pc EXCEPT ![p] = "read"] /\ UNCHANGED err
    /\ UNCHANGED <<fkind, disk, args, content, new_content>>

\* fs::read_to_string: the whole file, or an error.
read_to_string(p) ==
    /\ pc[p] = "read"
    /\ \/ /\ content' = [content EXCEPT ![p] = disk]
          /\ pc' = [pc EXCEPT ![p] = "mutate"]
          /\ UNCHANGED err
       \/ /\ Fail(p, "ReadFailed")
          /\ UNCHANGED content
    /\ UNCHANGED <<fkind, disk, args, new_content>>

\* The handler goes on to the Writer with r.out, or ends with error e.
Mutated(p, r, e) ==
    /\ IF r.ok
       THEN /\ new_content' = [new_content EXCEPT ![p] = r.out]
            /\ pc' = [pc EXCEPT ![p] = "write"]
            /\ UNCHANGED err
       ELSE /\ Fail(p, e)
            /\ UNCHANGED new_content
    /\ UNCHANGED <<fkind, disk, args, content>>

update_domain(p) ==
    /\ pc[p] = "mutate" /\ args[p].op = "update"
    /\ Mutated(p, update_existing_domain(content[p], args[p].domain, args[p].ip,
                                         args[p].verbose), "DomainNotFound")

delete_domain(p) ==
    /\ pc[p] = "mutate" /\ args[p].op = "delete"
    /\ Mutated(p, remove_domain(content[p], args[p].domain, args[p].verbose),
               "DomainNotFound")

create_domain(p) ==
    /\ pc[p] = "mutate" /\ args[p].op = "create"
    /\ Mutated(p, add_new_domain(content[p], args[p].domain, args[p].ip,
                                 args[p].verbose), "DomainAlreadyExists")

\* search_domain prints its report and returns Ok: no Writer.
search_domain(p) ==
    /\ pc[p] = "mutate" /\ args[p].op = "search"
    /\ pc' = [pc EXCEPT ![p] = "done"]
    /\ UNCHANGED <<fkind, disk, args, content, new_content, err>>

\* A variant of the write that appends to what the file holds.
write_append(cur, buf) == cur \o buf

\* A write of buf at offset 0 of a file that holds cur.
write_at_start(cur, buf) == buf \o SubSeq(cur, Len(buf) + 1, Len(cur))

\* fs::write, first half: open with create and truncate.  The open can be
\* refused (PermissionDenied, or another error) and then nothing changed.
write_open(p) ==
    /\ pc[p] = "write"
    /\ \/ /\ disk' = <<>>
          /\ pc' = [pc EXCEPT ![p] = "writing"]
          /\ UNCHANGED err
       \/ /\ \E e \in {"PermissionDenied", "WriteFailed"} : Fail(p, e)
          /\ UNCHANGED disk
    /\ UNCHANGED <<fkind, args, content, new_content>>

\* fs::write, second half: write_all of the new content.  It can fail after
\* any number of bytes (here at most MaxPartial), which stay in the file.
write_all(p) ==
    /\ pc[p] = "writing"
    /\ \/ /\ disk' = write_at_start(disk, new_content[p])
          /\ pc' = [pc EXCEPT ![p] = "done"]
          /\ UNCHANGED err
       \/ /\ \E k \in 0..MaxPartial :
                /\ k < Len(new_content[p])
                /\ disk' = write_at_start(disk, SubSeq(new_content[p], 1, k))
          /\ Fail(p, "WriteFailed")
    /\ UNCHANGED <<fkind, args, content, new_content>>

Step(p) ==
    \/ \E cmd \in Commands : main(p, cmd)
    \/ check_hosts_file(p)
    \/ read_to_string(p)
    \/ update_domain(p)
    \/ delete_domain(p)
    \/ create_domain(p)
    \/ search_domain(p)
    \/ write_open(p)
    \/ write_all(p)

Next == \E p \in Single : Step(p)

Spec == Init /\ [][Next]_vars

(***************************************************************************)
(* Two invocations of create side by side on one file.                     *)
(***************************************************************************)
ConcDomains == { <<"a", ".", "c", "o", "m">>, <<"b", ".", "c", "o", "m">> }

ConcCommands ==
    [op : {"create"}, domain : ConcDomains,
     ip : { <<"9", ".", "9", ".", "9", ".", "9">> }, verbose : {FALSE}]

ConcDocs ==
    {MkDoc(ls, NL, final) : ls \in SeqsUpTo(ShortPool, MaxLines), final \in BOOLEAN}

InitConc ==
    /\ fkind = "file"
    /\ disk \in ConcDocs
    /\ pc = [p \in Procs |-> "idle"]
    /\ args = [p \in Procs |-> NoArgs]
    /\ content = [p \in Procs |-> <<>>]
    /\ new_content = [p \in Procs |-> <<>>]
    /\ err = [p \in Procs |-> "none"]

StepConc(p) ==
    \/ \E cmd \in ConcCommands : main(p, cmd)
    \/ check_hosts_file(p)
    \/ read_to_string(p)
    \/ create_domain(p)
    \/ write_open(p)
    \/ write_all(p)

NextConc == \E p \in Procs : StepConc(p)

SpecConc == InitConc /\ [][NextConc]_vars

(***************************************************************************)
(* Vocabulary of the properties.                                           *)
(***************************************************************************)
WriteErrors == {"PermissionDenied", "WriteFailed"}

MutatorErrors == {"DomainNotFound", "DomainAlreadyExists"}

\* The mutator of p's handler returned Ok: the handler reached the Writer.
MutatorOk(p) ==
    /\ args[p].op \in Mutating
    /\ \/ pc[p] \in {"write", "writing", "done"}
       \/ pc[p] = "failed" /\ err[p] \in WriteErrors

\* The mutator of p's handler returned, Ok or not.
MutatorRan(p) ==
    /\ args[p].op \in Mutating
    /\ \/ MutatorOk(p)
       \/ pc[p] = "failed" /\ err[p] \in MutatorErrors

\* The lines of the text p read, the lines of the text its mutator made.
OldLines(p) == lines(content[p])

NewLines(p) == lines(new_content[p])

\* Where the Line Matcher accepts a line of the text p read.
Matches(p) == matching(OldLines(p), args[p].domain)

\* The least element of a non-empty set of numbers.
Least(S) == CHOOSE i \in S : \A j \in S : i <= j

\* No line of the text, as str::lines cuts it, ends with a carriage return.
NoLineEndsInCR(text) ==
    \A i \in 1..Len(lines(text)) :
        LET l == lines(text)[i] IN Len(l) = 0 \/ l[Len(l)] # "\r"

\* The argument holds no line feed.
SingleLine(arg) == \A i \in 1..Len(arg) : arg[i] # "\n"

\* The text has l among its lines.
HasLine(text, l) == \E i \in 1..Len(lines(text)) : lines(text)[i] = l

\* The entries of report rep that report old does not have.
NewEntries(rep, old) ==
    {k \in 1..Len(rep) : \A j \in 1..Len(old) : rep[k] # old[j]}

\* The tail of s from index i on.
Tail_from(s, i) == SubSeq(s, i, Len(s))

\* The line the Line Matcher is specified to accept: an address and
\* whitespace at the start, and the domain as a whole token of what follows.
token_after_address(line, domain) ==
    /\ ip_regex_is_match(line)
    /\ domain_regex_is_match(Tail_from(line, address_end(line)), domain)

(***************************************************************************)
(* C1.  Delete removes every matching line.                                *)
(***************************************************************************)
\* C1: whatever the verbosity flag, when at least one line of the file
\* matches the domain, delete succeeds and its result is exactly the
\* non-matching lines in their order; it fails with DomainNotFound only when
\* no line matched.
C1_DeleteRemovesEveryMatch ==
    \A p \in Procs :
        (MutatorRan(p) /\ args[p].op = "delete") =>
            LET keep(line) == ~is_mapping_for(line, args[p].domain)
            IN  /\ Matches(p) # {} =>
                    /\ MutatorOk(p)
                    /\ NewLines(p) = SelectSeq(OldLines(p), keep)
                /\ err[p] = "DomainNotFound" => Matches(p) = {}

(***************************************************************************)
(* C2.  Create after Create.                                               *)
(***************************************************************************)
\* C2: once a create of a domain has written the file, another create of
\* the same domain, with any IP, on that file fails (DomainAlreadyExists).
C2_SecondCreateFails ==
    \A p \in Single :
        (pc[p] = "done" /\ args[p].op = "create") =>
            \A ip2 \in IPs, v \in BOOLEAN :
                ~add_new_domain(disk, args[p].domain, ip2, v).ok

(***************************************************************************)
(* C3.  Update of the only record of a domain.                             *)
(***************************************************************************)
\* C3: when exactly one line is a record for the domain, update puts
\* "<ip2> <domain>" at the start of that line, leaves every other line as it
\* was, and the result still has exactly one record for the domain.
C3_UpdateKeepsOneRecord ==
    \A p \in Procs :
        (MutatorRan(p) /\ args[p].op = "update" /\ Cardinality(Matches(p)) = 1) =>
            LET i == Least(Matches(p))
                head == args[p].ip \o <<" ">> \o args[p].domain
            IN  /\ MutatorOk(p)
                /\ Len(NewLines(p)) = Len(OldLines(p))
                /\ SubSeq(NewLines(p)[i], 1, Len(head)) = head
                /\ \A j \in 1..Len(OldLines(p)) :
                       j # i => NewLines(p)[j] = OldLines(p)[j]
                /\ Cardinality(matching(NewLines(p), args[p].domain)) = 1

(***************************************************************************)
(* C4.  The trailing newline.                                              *)
(***************************************************************************)
\* The text ends with one newline character and no more.
EndsWithOneNewline(s) ==
    /\ ends_with_newline(s)
    /\ Len(s) >= 2 => s[Len(s) - 1] # "\n"

\* C4: the result of every mutator that succeeds ends with exactly one
\* newline when the text read ended with a newline, and with none when the
\* text read did not.
C4_TrailingNewlinePreserved ==
    \A p \in Procs :
        MutatorOk(p) =>
            /\ ends_with_newline(content[p]) => EndsWithOneNewline(new_content[p])
            /\ ~ends_with_newline(content[p]) => ~ends_with_newline(new_content[p])

(***************************************************************************)
(* C5.  A write that fails.                                                *)
(***************************************************************************)
\* C5: while and after the Writer runs, the file holds the complete old
\* text or the complete new text, and after a write that failed it holds
\* the old text.
C5_FailedWriteLeavesFile ==
    \A p \in Single :
        MutatorOk(p) =>
            /\ disk \in {content[p], new_content[p]}
            /\ (pc[p] = "failed" /\ err[p] \in WriteErrors) => disk = content[p]

(***************************************************************************)
(* C6.  Only the Writer changes the file.                                   *)
(***************************************************************************)
\* C6: the file changes only in a step of the Writer of an update, delete
\* or create whose mutator succeeded: an update or delete of a domain some
\* line matches, a create of a domain no line matches.  Search, a failed
\* File Guard or read, DomainNotFound and DomainAlreadyExists leave it alone.
C6_OnlyWriterChangesFile ==
    [][disk' # disk =>
          \E p \in Procs :
              /\ pc[p] \in {"write", "writing"}
              /\ pc'[p] \in {"writing", "done", "failed"}
              /\ pc'[p] # pc[p]
              /\ fkind = "file"
              /\ err[p] = "none"
              /\ args[p].op \in Mutating
              /\ args[p].op = "create" => Matches(p) = {}
              /\ args[p].op \in {"update", "delete"} => Matches(p) # {}]_vars

\* A create of a domain that has a record ended with DomainAlreadyExists
\* and the file is the non-empty text it read.
C6_Witness ==
    \E p \in Single :
        /\ pc[p] = "failed"
        /\ err[p] = "DomainAlreadyExists"
        /\ disk = content[p]
        /\ disk # <<>>

(***************************************************************************)
(* C7.  Create appends one line.                                           *)
(***************************************************************************)
\* What C7 says of a create by p of a domain no line matches.
CreateAppendsOneLine(p) ==
    LET new_line == format_line(args[p].ip, args[p].domain, created_comment)
        old == search_report(content[p], args[p].domain)
        rep == search_report(new_content[p], args[p].domain)
    IN  /\ MutatorOk(p)
        /\ NewLines(p) = Append(OldLines(p), new_line)
        /\ Cardinality(NewEntries(rep, old)) = 1
        /\ \A k \in NewEntries(rep, old) :
               /\ contains(rep[k][2], args[p].domain)
               /\ contains(rep[k][2], args[p].ip)

UpdateRewritesFirstMatchOnly(p) ==
    LET new_line == format_line(args[p].ip, args[p].domain, updated_comment)
    IN  /\ err[p] = "DomainNotFound" <=> Matches(p) = {}
        /\ Matches(p) # {} =>
              /\ MutatorOk(p)
              /\ NewLines(p) = [OldLines(p) EXCEPT ![Least(Matches(p))] = new_line]

C9_TokenAfterAddress ==
    \A p \in Procs :
        ( \/ MutatorOk(p) /\ args[p].op \in {"update", "delete"}
          \/ pc[p] = "failed" /\ err[p] = "DomainAlreadyExists" ) =>
            \E i \in 1..Len(OldLines(p)) :
                token_after_address(OldLines(p)[i], args[p].domain)

(***************************************************************************)
(* C10.  Two creates side by side.                                         *)
(***************************************************************************)
\* Both invocations are creates of different domains that read the same
\* text and both ended with success.
BothCreatedFromSameText(p, q) ==
    /\ p # q
    /\ pc[p] = "done" /\ pc[q] = "done"
    /\ args[p].op = "create" /\ args[q].op = "create"
    /\ args[p].domain # args[q].domain
    /\ content[p] = content[q]

CreatedLine(p) == format_line(args[p].ip, args[p].domain, created_comment)

\* C10: when two creates of different domains read the same text (both
\* read before either wrote) and both report success, the file holds the
\* new line of at most one of them: an update is lost.
C10_LostUpdate ==
    \A p \in Procs, q \in Procs :
        BothCreatedFromSameText(p, q) =>
            ~(HasLine(disk, CreatedLine(p)) /\ HasLine(disk, CreatedLine(q)))

\* Such a run exists: both succeeded and the file has the line of only one.
C10_Witness ==
    \E p \in Procs, q \in Procs :
        /\ BothCreatedFromSameText(p, q)
        /\ HasLine(disk, CreatedLine(q))
        /\ ~HasLine(disk, CreatedLine(p))

====
